---- MODULE Spec2Model ----
(***************************************************************************)
(* Model of the Jules MCP adapter: the FastMCP tool handlers (main.py),    *)
(* the HTTP client JulesClient (client.py) and the pydantic resource       *)
(* schema (models.py).                                                     *)
(*                                                                         *)
(* Python values: str is a TLA+ string, Optional[T] is <<>> (None) or      *)
(* <<v>>, a dict is a function from keys to values.  A JSON value coming   *)
(* from the wire is tagged with its JSON type ([str |-> s], [num |-> n],   *)
(* [bool |-> b], [null |-> TRUE], [list |-> seq]); a JSON object is a      *)
(* function from its keys to JSON values.                                  *)
(***************************************************************************)
EXTENDS Integers, Sequences, FiniteSets, TLC

VARIABLES environ, calls

vars == <<environ, calls>>

(***************************************************************************)
(* Bounds of the model.                                                    *)
(***************************************************************************)
\* number of tool calls the caller may have in flight at once
NumCalls == 2
\* longest page of sessions the remote returns to list_sessions
MaxPage == 2

Calls == 1..NumCalls

(***************************************************************************)
(* Python helpers.                                                         *)
(***************************************************************************)
None == <<>>

Some(v) == <<v>>

\* truth value of an Optional[str]: None and "" are falsy
Truthy(o) == o # None /\ o[1] # ""

\* the value of a parameter the caller may leave to its default
Default(o, d) == IF o = None THEN d ELSE o[1]

\* str.startswith
startswith(s, prefix) ==
    Len(s) >= Len(prefix) /\ SubSeq(s, 1, Len(prefix)) = prefix

EmptyDict == <<>>

(***************************************************************************)
(* JSON values as they arrive from the wire.                               *)
(***************************************************************************)
JStr(s) == [str |-> s]

JNum(n) == [num |-> n]

JBool(b) == [bool |-> b]

JNull == [null |-> TRUE]

JList(seq) == [list |-> seq]

JsonTags == {"str", "num", "bool", "null", "list"}

IsStr(v) == DOMAIN v = {"str"}

IsBool(v) == DOMAIN v = {"bool"}

IsNum(v) == DOMAIN v = {"num"}

IsNull(v) == DOMAIN v = {"null"}

IsList(v) == DOMAIN v = {"list"}

IsObject(v) == DOMAIN v \cap JsonTags = {}

(***************************************************************************)
(* models.py: the enumerations.                                            *)
(***************************************************************************)
SessionState ==
    { "STATE_UNSPECIFIED", "QUEUED", "PLANNING", "AWAITING_PLAN_APPROVAL",
      "AWAITING_USER_FEEDBACK", "IN_PROGRESS", "PAUSED", "FAILED",
      "COMPLETED" }

AutomationMode == { "AUTOMATION_MODE_UNSPECIFIED", "AUTO_CREATE_PR" }

(***************************************************************************)
(* models.py: the BaseModel classes, as field tables.  Field(...) is a     *)
(* required field, a default of None an optional one.                      *)
(***************************************************************************)
TStr == [k |-> "str"]

TBool == [k |-> "bool"]

TInt == [k |-> "int"]

TDatetime == [k |-> "datetime"]

TEnum(members) == [k |-> "enum", members |-> members]

TModel(cls) == [k |-> "model", cls |-> cls]

TList(cls) == [k |-> "list", cls |-> cls]

Required(T) == [type |-> T, required |-> TRUE]

Optional(T) == [type |-> T, required |-> FALSE]

Schema(cls) ==
    CASE cls = "GitHubRepoContext" ->
           [startingBranch |-> Required(TStr)]
      [] cls = "SourceContext" ->
           [source |-> Required(TStr),
            githubRepoContext |-> Optional(TModel("GitHubRepoContext"))]
      [] cls = "Source" ->
           [name |-> Required(TStr),
            displayName |-> Optional(TStr),
            branch |-> Optional(TStr)]
      [] cls = "PullRequest" ->
           [url |-> Optional(TStr),
            title |-> Optional(TStr),
            description |-> Optional(TStr)]
      [] cls = "SessionOutput" ->
           [pullRequest |-> Optional(TModel("PullRequest"))]
      [] cls = "Session" ->
           [name |-> Required(TStr),
            id |-> Required(TStr),
            prompt |-> Required(TStr),
            sourceContext |-> Required(TModel("SourceContext")),
            title |-> Optional(TStr),
            requirePlanApproval |-> Optional(TBool),
            automationMode |-> Optional(TEnum(AutomationMode)),
            createTime |-> Optional(TDatetime),
            updateTime |-> Optional(TDatetime),
            state |-> Required(TEnum(SessionState)),
            url |-> Optional(TStr),
            outputs |-> Optional(TList("SessionOutput"))]
      [] cls = "PlanStep" ->
           [id |-> Required(TStr),
            title |-> Required(TStr),
            description |-> Optional(TStr),
            index |-> Required(TInt)]
      [] cls = "Plan" ->
           [id |-> Required(TStr),
            steps |-> Required(TList("PlanStep")),
            createTime |-> Optional(TDatetime)]
      [] cls = "PlanGenerated" -> [plan |-> Required(TModel("Plan"))]
      [] cls = "PlanApproved" -> [planId |-> Required(TStr)]
      [] cls = "AgentMessaged" -> [agentMessage |-> Required(TStr)]
      [] cls = "UserMessaged" -> [userMessage |-> Required(TStr)]
      [] cls = "ProgressUpdated" ->
           [title |-> Optional(TStr), description |-> Optional(TStr)]
      [] cls = "SessionFailed" -> [reason |-> Optional(TStr)]
      [] cls = "SessionCompleted" -> EmptyDict
      [] cls = "GitPatch" ->
           [unidiffPatch |-> Optional(TStr),
            baseCommitId |-> Optional(TStr),
            suggestedCommitMessage |-> Optional(TStr)]
      [] cls = "ChangeSet" ->
           [source |-> Required(TStr),
            gitPatch |-> Optional(TModel("GitPatch"))]
      [] cls = "Artifact" -> [changeSet |-> Optional(TModel("ChangeSet"))]
      [] cls = "Activity" ->
           [name |-> Required(TStr),
            id |-> Required(TStr),
            description |-> Optional(TStr),
            createTime |-> Optional(TDatetime),
            originator |-> Optional(TStr),
            artifacts |-> Optional(TList("Artifact")),
            agentMessaged |-> Optional(TModel("AgentMessaged")),
            userMessaged |-> Optional(TModel("UserMessaged")),
            planGenerated |-> Optional(TModel("PlanGenerated")),
            planApproved |-> Optional(TModel("PlanApproved")),
            progressUpdated |-> Optional(TModel("ProgressUpdated")),
            sessionCompleted |-> Optional(TModel("SessionCompleted")),
            sessionFailed |-> Optional(TModel("SessionFailed"))]

(***************************************************************************)
(* The paginated response wrappers.  client.py imports ListSourcesResponse,*)
(* ListSessionsResponse and ListActivitiesResponse from models, which does *)
(* not define them; they are the "paginated response wrapper" of the data  *)
(* model: the ordered sequence of items plus an optional continuation      *)
(* token (field next_page_token, wire alias nextPageToken).                *)
(***************************************************************************)
PageSchema(cls) ==
    CASE cls = "ListSourcesResponse" ->
           [sources |-> Required(TList("Source")),
            nextPageToken |-> Optional(TStr)]
      [] cls = "ListSessionsResponse" ->
           [sessions |-> Required(TList("Session")),
            nextPageToken |-> Optional(TStr)]
      [] cls = "ListActivitiesResponse" ->
           [activities |-> Required(TList("Activity")),
            nextPageToken |-> Optional(TStr)]

PageClasses ==
    {"ListSourcesResponse", "ListSessionsResponse", "ListActivitiesResponse"}

FieldsOf(cls) == IF cls \in PageClasses THEN PageSchema(cls) ELSE Schema(cls)

(***************************************************************************)
(* pydantic validation (BaseModel.model_validate) over the field tables.   *)
(* A result is [errs |-> set of [loc, type], value |-> the parsed value];  *)
(* the value is meaningful only when errs is empty.  Keys of the wire      *)
(* object that the class does not declare are ignored.                     *)
(***************************************************************************)
ISO_TIMESTAMPS == { "2025-01-01T00:00:00Z" }

Ok(v) == [errs |-> {}, value |-> v]

Err(loc, type) == [errs |-> {[loc |-> loc, type |-> type]}, value |-> None]

RECURSIVE Validate(_, _, _)
RECURSIVE ValidateModel(_, _, _)

ValidateField(field, w, f, loc) ==
    IF f \notin DOMAIN w
    THEN IF field.required THEN Err(loc \o <<f>>, "missing") ELSE Ok(None)
    ELSE IF ~field.required /\ IsNull(w[f])
    THEN Ok(None)
    ELSE LET r == Validate(field.type, w[f], loc \o <<f>>)
         IN  IF r.errs # {} THEN r
             ELSE IF field.required THEN r ELSE Ok(Some(r.value))

ValidateModel(cls, w, loc) ==
    LET S == FieldsOf(cls)
        res == [f \in DOMAIN S |-> ValidateField(S[f], w, f, loc)]
    IN  [errs |-> UNION {res[f].errs : f \in DOMAIN S},
         value |-> [f \in DOMAIN S |-> res[f].value]]

Validate(T, v, loc) ==
    CASE T.k = "str" ->
           IF IsStr(v) THEN Ok(v.str) ELSE Err(loc, "string_type")
      [] T.k = "bool" ->
           IF IsBool(v) THEN Ok(v.bool) ELSE Err(loc, "bool_type")
      [] T.k = "int" ->
           IF IsNum(v) THEN Ok(v.num) ELSE Err(loc, "int_type")
      [] T.k = "datetime" ->
           IF IsStr(v) /\ v.str \in ISO_TIMESTAMPS
           THEN Ok([datetime |-> v.str]) ELSE Err(loc, "datetime_type")
      [] T.k = "enum" ->
           IF IsStr(v) /\ v.str \in T.members
           THEN Ok(v.str) ELSE Err(loc, "enum")
      [] T.k = "model" ->
           IF IsObject(v) THEN ValidateModel(T.cls, v, loc)
           ELSE Err(loc, "model_type")
      [] T.k = "list" ->
           IF ~IsList(v) THEN Err(loc, "list_type")
           ELSE LET n == Len(v.list)
                    res == [i \in 1..n |->
                              IF IsObject(v.list[i])
                              THEN ValidateModel(T.cls, v.list[i],
                                                 loc \o <<ToString(i - 1)>>)
                              ELSE Err(loc \o <<ToString(i - 1)>>,
                                       "model_type")]
                IN  [errs |-> UNION {res[i].errs : i \in 1..n},
                     value |-> [i \in 1..n |-> res[i].value]]

\* cls.model_validate(obj): the record, or a ValidationError
model_validate(cls, obj) ==
    LET r == IF IsObject(obj) THEN ValidateModel(cls, obj, <<>>)
             ELSE Err(<<>>, "model_type")
    IN  IF r.errs = {}
        THEN [ok |-> TRUE, value |-> r.value]
        ELSE [ok |-> FALSE,
              error |-> [type |-> "ValidationError", errors |-> r.errs]]

(***************************************************************************)
(* record.model_dump(by_alias=True, exclude_none=True): the dict of the    *)
(* fields that are not None, nested models dumped the same way.            *)
(***************************************************************************)
RECURSIVE model_dump(_, _)

DumpValue(T, v) ==
    CASE T.k = "model" -> model_dump(T.cls, v)
      [] T.k = "list" -> [i \in 1..Len(v) |-> model_dump(T.cls, v[i])]
      [] OTHER -> v

model_dump(cls, rec) ==
    LET S == FieldsOf(cls)
        kept == {f \in DOMAIN S : S[f].required \/ rec[f] # None}
    IN  [f \in kept |->
           IF S[f].required THEN DumpValue(S[f].type, rec[f])
           ELSE DumpValue(S[f].type, rec[f][1])]

(***************************************************************************)
(* What a coroutine does at a step: it returns, it raises, or it suspends  *)
(* at the await of its HTTP request with its local variables in a frame.   *)
(***************************************************************************)
Return(v) == [kind |-> "return", value |-> v]

Raise(e) == [kind |-> "raise", error |-> e]

Await(request, frame) ==
    [kind |-> "await", request |-> request, frame |-> frame]

(***************************************************************************)
(* httpx: the requests the client issues and Response.raise_for_status.    *)
(***************************************************************************)
HttpGet(url, headers, params) ==
    [method |-> "GET", url |-> url, headers |-> headers,
     params |-> params, json |-> None]

HttpPost(url, headers, json) ==
    [method |-> "POST", url |-> url, headers |-> headers,
     params |-> None, json |-> Some(json)]

\* Response.is_success
is_success(response) ==
    200 <= response.status_code /\ response.status_code <= 299

HTTPStatusError(response) ==
    [type |-> "HTTPStatusError",
     status_code |-> response.status_code,
     body |-> response.body]

\* variant: only 4xx and 5xx are refused
raise_for_status_client_or_server_error(response) ==
    response.status_code < 400

\* a status that raise_for_status lets through: only a 2xx
raise_for_status_passes(response) == is_success(response)

\* Response.json(): the decoded body, or a decode error for a body that is
\* not JSON (the empty body of an action call)
IsJson(body) == "raw" \notin DOMAIN body

JSONDecodeError == [type |-> "JSONDecodeError"]

\* response.raise_for_status(); return cls.model_validate(response.json())
ValidateResponse(cls, response) ==
    IF ~raise_for_status_passes(response)
    THEN Raise(HTTPStatusError(response))
    ELSE IF ~IsJson(response.body)
    THEN Raise(JSONDecodeError)
    ELSE LET r == model_validate(cls, response.body)
         IN  IF r.ok THEN Return(r.value) ELSE Raise(r.error)

(***************************************************************************)
(* client.py                                                               *)
(***************************************************************************)
BASE_URL == "https://jules.googleapis.com/v1alpha"

\* JulesClient.__init__
JulesClient(api_key) ==
    [api_key |-> api_key,
     headers |-> ("X-Goog-Api-Key" :> api_key)
                   @@ ("Content-Type" :> "application/json")]

\* params = {"pageSize": page_size}; if page_token: params["pageToken"] = ...
PageParams(page_size, page_token) ==
    IF Truthy(page_token)
    THEN ("pageSize" :> page_size) @@ ("pageToken" :> page_token[1])
    ELSE ("pageSize" :> page_size)

\* variant: the prefix is added without looking at the name
NormalizeSessionName_unconditional(session_name) ==
    "sessions/" \o session_name

\* if not session_name.startswith("sessions/"): prefix it
NormalizeSessionName(session_name) ==
    IF ~startswith(session_name, "sessions/")
    THEN "sessions/" \o session_name
    ELSE session_name

JulesClient_list_sources(self, page_size, page_token, filter_expr) ==
    LET params0 == PageParams(page_size, page_token)
        params == IF Truthy(filter_expr)
                  THEN params0 @@ ("filter" :> filter_expr[1])
                  ELSE params0
    IN  Await(HttpGet(BASE_URL \o "/sources", self.headers, Some(params)),
              [method |-> "list_sources"])

JulesClient_get_source(self, source_name) ==
    Await(HttpGet(BASE_URL \o "/" \o source_name, self.headers, None),
          [method |-> "get_source"])

JulesClient_list_sessions(self, page_size, page_token) ==
    Await(HttpGet(BASE_URL \o "/sessions", self.headers,
                  Some(PageParams(page_size, page_token))),
          [method |-> "list_sessions"])

JulesClient_get_session(self, session_name) ==
    Await(HttpGet(BASE_URL \o "/" \o session_name, self.headers, None),
          [method |-> "get_session"])

\* variant: title is sent whenever it is not None
CreateSessionBody_title_not_none(prompt, source, branch, title, require_plan_approval) ==
    LET source_context ==
            IF Truthy(branch)
            THEN ("source" :> source) @@ ("branch" :> branch[1])
            ELSE ("source" :> source)
        body0 == ("prompt" :> prompt) @@ ("sourceContext" :> source_context)
        body1 == IF title # None
                 THEN body0 @@ ("title" :> title[1]) ELSE body0
    IN  IF require_plan_approval
        THEN body1 @@ ("requirePlanApproval" :> require_plan_approval)
        ELSE body1

\* the JSON body of the create-session request
CreateSessionBody(prompt, source, branch, title, require_plan_approval) ==
    LET source_context ==
            IF Truthy(branch)
            THEN ("source" :> source) @@ ("branch" :> branch[1])
            ELSE ("source" :> source)
        body0 == ("prompt" :> prompt) @@ ("sourceContext" :> source_context)
        body1 == IF Truthy(title)
                 THEN body0 @@ ("title" :> title[1]) ELSE body0
    IN  IF require_plan_approval
        THEN body1 @@ ("requirePlanApproval" :> require_plan_approval)
        ELSE body1

JulesClient_create_session(self, prompt, source, branch, title, require_plan_approval) ==
    Await(HttpPost(BASE_URL \o "/sessions", self.headers,
                   CreateSessionBody(prompt, source, branch, title,
                                     require_plan_approval)),
          [method |-> "create_session"])

JulesClient_send_message(self, session_name, prompt) ==
    LET name == NormalizeSessionName(session_name)
    IN  Await(HttpPost(BASE_URL \o "/" \o name \o ":sendMessage",
                       self.headers, "prompt" :> prompt),
              [method |-> "send_message", session_name |-> name])

JulesClient_approve_plan(self, session_name) ==
    LET name == NormalizeSessionName(session_name)
    IN  Await(HttpPost(BASE_URL \o "/" \o name \o ":approvePlan",
                       self.headers, EmptyDict),
              [method |-> "approve_plan", session_name |-> name])

JulesClient_list_activities(self, session_name, page_size, page_token) ==
    LET name == NormalizeSessionName(session_name)
    IN  Await(HttpGet(BASE_URL \o "/" \o name \o "/activities",
                      self.headers, Some(PageParams(page_size, page_token))),
              [method |-> "list_activities", session_name |-> name])

JulesClient_get_activity(self, activity_name) ==
    Await(HttpGet(BASE_URL \o "/" \o activity_name, self.headers, None),
          [method |-> "get_activity"])

\* the rest of a client method, from the point where the response arrives
JulesClient_resume(frame, response) ==
    CASE frame.method = "list_sources" ->
           ValidateResponse("ListSourcesResponse", response)
      [] frame.method = "get_source" -> ValidateResponse("Source", response)
      [] frame.method = "list_sessions" ->
           ValidateResponse("ListSessionsResponse", response)
      [] frame.method \in {"get_session", "create_session"} ->
           ValidateResponse("Session", response)
      [] frame.method \in {"send_message", "approve_plan"} ->
           IF ~raise_for_status_passes(response)
           THEN Raise(HTTPStatusError(response))
           ELSE Return([success |-> TRUE, session |-> frame.session_name])
      [] frame.method = "list_activities" ->
           ValidateResponse("ListActivitiesResponse", response)
      [] frame.method = "get_activity" ->
           ValidateResponse("Activity", response)

(***************************************************************************)
(* main.py                                                                 *)
(***************************************************************************)
\* variant: only an unset variable is refused
get_client_unset_only ==
    LET api_key == IF "JULES_API_KEY" \in DOMAIN environ
                   THEN Some(environ["JULES_API_KEY"]) ELSE None
    IN  IF api_key = None
        THEN Raise([type |-> "ValueError",
                    message |->
                      "JULES_API_KEY environment variable is required"])
        ELSE Return(JulesClient(api_key[1]))

\* get_client(): os.environ.get("JULES_API_KEY"), refused when None or ""
get_client ==
    LET api_key == IF "JULES_API_KEY" \in DOMAIN environ
                   THEN Some(environ["JULES_API_KEY"]) ELSE None
    IN  IF ~Truthy(api_key)
        THEN Raise([type |-> "ValueError",
                    message |->
                      "JULES_API_KEY environment variable is required"])
        ELSE Return(JulesClient(api_key[1]))

\* variant: only completed sessions are filtered out
TerminalStates_completed_only == {"COMPLETED"}

\* the states list_sessions(active_only=True) filters out
TerminalStates == {"COMPLETED", "FAILED"}

\* [s for s in sessions if s.state not in (COMPLETED, FAILED)]
ActiveSessions(sessions) ==
    SelectSeq(sessions, LAMBDA s : s.state \notin TerminalStates)

PR_SUFFIX == "\n\nPlease create a pull request with these changes."

\* the client method a tool handler awaits, with the arguments it passes.
\* get_activity is a method of the client with no tool of its own.
ClientCall(client, tool, args) ==
    CASE tool = "list_sources" ->
           JulesClient_list_sources(client, args.page_size, args.page_token,
                                    None)
      [] tool = "get_source" ->
           JulesClient_get_source(client, args.source_name)
      [] tool = "list_sessions" ->
           JulesClient_list_sessions(client, args.page_size, args.page_token)
      [] tool = "get_session" ->
           JulesClient_get_session(client, args.session_name)
      [] tool = "create_session" ->
           JulesClient_create_session(client, args.prompt, args.source,
                                      args.branch, args.title,
                                      Default(args.require_plan_approval,
                                              FALSE))
      [] tool = "send_message" ->
           JulesClient_send_message(client, args.session_name, args.message)
      [] tool = "approve_plan" ->
           JulesClient_approve_plan(client, args.session_name)
      [] tool = "list_activities" ->
           JulesClient_list_activities(client, args.session_name,
                                       args.page_size, args.page_token)
      [] tool = "create_pull_request" ->
           JulesClient_create_session(client, args.prompt \o PR_SUFFIX,
                                      args.source, args.branch, args.title,
                                      FALSE)
      [] tool = "get_activity" ->
           JulesClient_get_activity(client, args.activity_name)

\* a handler up to its await: client = get_client(); await client.method(...)
ToolCall(tool, args) ==
    LET client == get_client
    IN  IF client.kind = "raise" THEN client
        ELSE ClientCall(client.value, tool, args)

\* the rest of a tool handler, given what the awaited client method did
ToolResume(tool, args, out) ==
    IF out.kind = "raise" THEN out
    ELSE CASE tool = "list_sources" ->
                Return(model_dump("ListSourcesResponse", out.value))
           [] tool = "get_source" ->
                Return(model_dump("Source", out.value))
           [] tool = "list_sessions" ->
                LET sessions == IF args.active_only
                                THEN ActiveSessions(out.value.sessions)
                                ELSE out.value.sessions
                IN  Return([sessions |->
                              [i \in 1..Len(sessions) |->
                                 model_dump("Session", sessions[i])],
                            nextPageToken |-> out.value.nextPageToken])
           [] tool \in {"get_session", "create_session",
                        "create_pull_request"} ->
                Return(model_dump("Session", out.value))
           [] tool \in {"send_message", "approve_plan"} -> out
           [] tool = "list_activities" ->
                Return(model_dump("ListActivitiesResponse", out.value))
           [] tool = "get_activity" -> out

(***************************************************************************)
(* The state: the process environment and, for every call the caller has   *)
(* made, the coroutine of that call.                                       *)
(***************************************************************************)
Idle ==
    [pc |-> "idle", tool |-> "", args |-> EmptyDict, frame |-> EmptyDict,
     requests |-> <<>>, response |-> None, outcome |-> None]

\* variant: the locals live in one place shared by the calls in flight
FrameOf_shared(c) ==
    LET waiting == {d \in Calls : calls[d].pc = "awaiting"}
    IN  calls[CHOOSE d \in waiting : \A e \in waiting : d >= e].frame

\* the local variables a suspended coroutine resumes with
FrameOf(c) == calls[c].frame

\* the coroutine of a tool the caller has just invoked: the handler has run
\* up to its await, or has raised
Invoked(tool, args) ==
    LET step == ToolCall(tool, args)
    IN  IF step.kind = "await"
        THEN [pc |-> "awaiting", tool |-> tool, args |-> args,
              frame |-> step.frame, requests |-> <<step.request>>,
              response |-> None, outcome |-> None]
        ELSE [pc |-> "done", tool |-> tool, args |-> args,
              frame |-> EmptyDict, requests |-> <<>>,
              response |-> None, outcome |-> Some(step)]

list_sources(c, page_size, page_token) ==
    /\ calls[c].pc = "idle"
    /\ calls' = [calls EXCEPT ![c] =
         Invoked("list_sources",
                 [page_size |-> page_size, page_token |-> page_token])]
    /\ UNCHANGED environ

get_source(c, source_name) ==
    /\ calls[c].pc = "idle"
    /\ calls' = [calls EXCEPT ![c] =
         Invoked("get_source", [source_name |-> source_name])]
    /\ UNCHANGED environ

list_sessions(c, page_size, page_token, active_only) ==
    /\ calls[c].pc = "idle"
    /\ calls' = [calls EXCEPT ![c] =
         Invoked("list_sessions",
                 [page_size |-> page_size, page_token |-> page_token,
                  active_only |-> active_only])]
    /\ UNCHANGED environ

get_session(c, session_name) ==
    /\ calls[c].pc = "idle"
    /\ calls' = [calls EXCEPT ![c] =
         Invoked("get_session", [session_name |-> session_name])]
    /\ UNCHANGED environ

create_session(c, prompt, source, branch, title, require_plan_approval) ==
    /\ calls[c].pc = "idle"
    /\ calls' = [calls EXCEPT ![c] =
         Invoked("create_session",
                 [prompt |-> prompt, source |-> source, branch |-> branch,
                  title |-> title,
                  require_plan_approval |-> require_plan_approval])]
    /\ UNCHANGED environ

send_message(c, session_name, message) ==
    /\ calls[c].pc = "idle"
    /\ calls' = [calls EXCEPT ![c] =
         Invoked("send_message",
                 [session_name |-> session_name, message |-> message])]
    /\ UNCHANGED environ

approve_plan(c, session_name) ==
    /\ calls[c].pc = "idle"
    /\ calls' = [calls EXCEPT ![c] =
         Invoked("approve_plan", [session_name |-> session_name])]
    /\ UNCHANGED environ

list_activities(c, session_name, page_size, page_token) ==
    /\ calls[c].pc = "idle"
    /\ calls' = [calls EXCEPT ![c] =
         Invoked("list_activities",
                 [session_name |-> session_name, page_size |-> page_size,
                  page_token |-> page_token])]
    /\ UNCHANGED environ

create_pull_request(c, prompt, source, branch, title) ==
    /\ calls[c].pc = "idle"
    /\ calls' = [calls EXCEPT ![c] =
         Invoked("create_pull_request",
                 [prompt |-> prompt, source |-> source, branch |-> branch,
                  title |-> title])]
    /\ UNCHANGED environ

get_activity(c, activity_name) ==
    /\ calls[c].pc = "idle"
    /\ calls' = [calls EXCEPT ![c] =
         Invoked("get_activity", [activity_name |-> activity_name])]
    /\ UNCHANGED environ

\* the remote answers the request of call c and the coroutine runs to its end
Receive(c, response) ==
    /\ calls[c].pc = "awaiting"
    /\ LET call == calls[c]
           out == JulesClient_resume(FrameOf(c), response)
       IN  calls' = [calls EXCEPT ![c] =
             [pc |-> "done", tool |-> call.tool, args |-> call.args,
              frame |-> call.frame, requests |-> call.requests,
              response |-> Some(response),
              outcome |-> Some(ToolResume(call.tool, call.args, out))]]
    /\ UNCHANGED environ

\* the result or the error is handed to the caller; the coroutine is gone
Deliver(c) ==
    /\ calls[c].pc = "done"
    /\ calls' = [calls EXCEPT ![c] = Idle]
    /\ UNCHANGED environ

(***************************************************************************)
(* The inputs: what the environment holds, what the caller passes and what *)
(* the remote answers.                                                     *)
(***************************************************************************)
Tools ==
    { "list_sources", "get_source", "list_sessions", "get_session",
      "create_session", "send_message", "approve_plan", "list_activities",
      "create_pull_request", "get_activity" }

Environs ==
    { EmptyDict, "JULES_API_KEY" :> "", "JULES_API_KEY" :> "key-1",
      ("JULES_API_KEY" :> "key-2") @@ ("HOME" :> "/root") }

SOURCE_NAME == "sources/github/acme/widgets"

SeqsUpTo(S, n) == UNION {[1..k -> S] : k \in 0..n}

WireSession(id, state) ==
    [name |-> JStr("sessions/" \o id), id |-> JStr(id),
     prompt |-> JStr("fix bug"),
     sourceContext |-> [source |-> JStr(SOURCE_NAME)],
     state |-> JStr(state)]

\* the sessions the remote lists
PageItems ==
    { WireSession("s1", "QUEUED"),
      WireSession("s2", "COMPLETED"),
      WireSession("s3", "FAILED"),
      WireSession("s4", "IN_PROGRESS")
        @@ [title |-> JStr("t"), createTime |-> JStr("2025-01-01T00:00:00Z"),
            outputs |-> JList(<<[pullRequest |->
                                   [url |-> JStr("https://pr/1")]]>>)],
      [name |-> JStr("sessions/s5"), id |-> JStr("s5")] }

SessionPages ==
    { page @@ token :
        page \in {[sessions |-> JList(q)] : q \in SeqsUpTo(PageItems, MaxPage)},
        token \in {EmptyDict, [nextPageToken |-> JStr("T1")]} }

\* Session objects: every combination of the fields the claims speak of
\* being absent, well-formed or malformed
WireSessions ==
    { n @@ i @@ p @@ sc @@ st @@ am @@ t :
        n \in {EmptyDict, [name |-> JStr("sessions/abc123")]},
        i \in {EmptyDict, [id |-> JStr("abc123")]},
        p \in {EmptyDict, [prompt |-> JStr("fix bug")], [prompt |-> JNum(7)]},
        sc \in {EmptyDict, [sourceContext |-> EmptyDict],
                [sourceContext |-> [source |-> JStr(SOURCE_NAME)]]},
        st \in {EmptyDict, [state |-> JStr("QUEUED")],
                [state |-> JStr("COMPLETED")], [state |-> JStr("BOGUS")]},
        am \in {EmptyDict, [automationMode |-> JStr("AUTO_CREATE_PR")],
                [automationMode |-> JStr("FULLY_AUTOMATIC")]},
        t \in {EmptyDict, [title |-> JStr("t"), unknownKey |-> JNum(1)]} }

WirePlan ==
    [id |-> JStr("p1"),
     steps |-> JList(<<[id |-> JStr("st1"), title |-> JStr("do it"),
                        index |-> JNum(0)]>>)]

\* Activity objects: every combination of payload keys
WireActivities ==
    { n @@ i @@ am @@ um @@ pg @@ pa @@ pu @@ sc @@ sf :
        n \in {EmptyDict, [name |-> JStr("sessions/abc123/activities/a1")]},
        i \in {EmptyDict, [id |-> JStr("a1")]},
        am \in {EmptyDict, [agentMessaged |-> [agentMessage |-> JStr("hi")]],
                [agentMessaged |-> EmptyDict]},
        um \in {EmptyDict, [userMessaged |-> [userMessage |-> JStr("yo")]]},
        pg \in {EmptyDict, [planGenerated |-> [plan |-> WirePlan]]},
        pa \in {EmptyDict, [planApproved |-> [planId |-> JStr("p1")]]},
        pu \in {EmptyDict, [progressUpdated |-> EmptyDict],
                [progressUpdated |-> JNull]},
        sc \in {EmptyDict, [sessionCompleted |-> EmptyDict]},
        sf \in {EmptyDict, [sessionFailed |-> [reason |-> JStr("boom")]]} }

WireSource == [name |-> JStr(SOURCE_NAME), displayName |-> JStr("widgets")]

WireActivity ==
    [name |-> JStr("sessions/abc123/activities/a1"), id |-> JStr("a1"),
     agentMessaged |-> [agentMessage |-> JStr("hi")]]

\* a body of the right shape for each tool
SampleBody(tool) ==
    CASE tool = "list_sources" ->
           [sources |-> JList(<<WireSource>>), nextPageToken |-> JStr("T1")]
      [] tool = "get_source" -> WireSource
      [] tool = "list_sessions" ->
           [sessions |-> JList(<<WireSession("s1", "QUEUED"),
                                 WireSession("s2", "COMPLETED")>>)]
      [] tool \in {"get_session", "create_session", "create_pull_request"} ->
           WireSession("abc123", "QUEUED")
      [] tool \in {"send_message", "approve_plan"} -> [raw |-> ""]
      [] tool = "list_activities" -> [activities |-> JList(<<WireActivity>>)]
      [] tool = "get_activity" -> WireActivity

NotFoundBody == [error |-> JStr("not found")]

CommonBodies(tool) == {NotFoundBody, [raw |-> ""], SampleBody(tool)}

\* the bodies a successful answer is drawn from when one call is explored
\* in depth
DeepBodies(tool) ==
    CASE tool = "list_sessions" -> SessionPages
      [] tool = "get_session" -> WireSessions
      [] tool = "get_activity" -> WireActivities
      [] tool = "list_sources" ->
           {[sources |-> JList(<<>>)], [nextPageToken |-> JStr("T1")]}
      [] tool = "list_activities" ->
           {[activities |-> JList(<<WireActivity, WireActivity>>),
             nextPageToken |-> JStr("T2")]}
      [] OTHER -> {}

Responses(statuses, ok, bodies) ==
    [status_code : statuses, body : bodies]
      \cup [status_code : ok, body : bodies]

Deep ==
    [page_sizes |-> {30, 5},
     page_tokens |-> {None, Some(""), Some("T1")},
     session_refs |-> {"abc123", "sessions/abc123", "sessions", "sessions/",
                       "", "Sessions/abc123"},
     activity_refs |-> {"abc123", "sessions/abc123",
                        "sessions/abc123/activities/a1", "a1"},
     source_names |-> {SOURCE_NAME, "acme/widgets"},
     prompts |-> {"fix bug"},
     branches |-> {None, Some(""), Some("main")},
     titles |-> {None, Some(""), Some("Fix it")},
     approvals |-> {None, Some(FALSE), Some(TRUE)},
     messages |-> {"go on", ""},
     responses |->
       [t \in Tools |->
          Responses({199, 200, 299, 300, 404, 500}, {}, CommonBodies(t))
            \cup Responses({}, {200}, DeepBodies(t))]]

Wide ==
    [page_sizes |-> {30},
     page_tokens |-> {Some("T1")},
     session_refs |-> {"abc123", "sessions/xyz789"},
     activity_refs |-> {"sessions/abc123/activities/a1"},
     source_names |-> {SOURCE_NAME},
     prompts |-> {"fix bug"},
     branches |-> {Some("main")},
     titles |-> {None},
     approvals |-> {None},
     messages |-> {"go on"},
     responses |->
       [t \in Tools |-> Responses({200, 404}, {}, {SampleBody(t)})]]

(***************************************************************************)
(* The specifications.                                                     *)
(***************************************************************************)
Init ==
    /\ environ \in Environs
    /\ calls = [c \in Calls |-> Idle]

\* what the remote may answer to the request call c is waiting on
Answers(c, I) ==
    IF calls[c].pc = "awaiting" THEN I.responses[calls[c].tool] ELSE {}

\* one step of call c with inputs drawn from I
Step(c, I) ==
    \/ \E ps \in I.page_sizes, pt \in I.page_tokens : list_sources(c, ps, pt)
    \/ \E sn \in I.source_names : get_source(c, sn)
    \/ \E ps \in I.page_sizes, pt \in I.page_tokens, ao \in BOOLEAN :
         list_sessions(c, ps, pt, ao)
    \/ \E sn \in I.session_refs : get_session(c, sn)
    \/ \E p \in I.prompts, b \in I.branches, t \in I.titles,
          rpa \in I.approvals :
         create_session(c, p, SOURCE_NAME, b, t, rpa)
    \/ \E sn \in I.session_refs, m \in I.messages : send_message(c, sn, m)
    \/ \E sn \in I.session_refs : approve_plan(c, sn)
    \/ \E sn \in I.session_refs, ps \in I.page_sizes, pt \in I.page_tokens :
         list_activities(c, sn, ps, pt)
    \/ \E p \in I.prompts, b \in I.branches, t \in I.titles :
         create_pull_request(c, p, SOURCE_NAME, b, t)
    \/ \E an \in I.activity_refs : get_activity(c, an)
    \/ \E r \in Answers(c, I) : Receive(c, r)
    \/ Deliver(c)

\* the caller issues calls concurrently
Next == \E c \in Calls : Step(c, Wide)

Spec == Init /\ [][Next]_vars

\* the caller awaits each call before it makes the next one, so that one
\* coroutine exists at a time
NextDeep == \E c \in {1} : Step(c, Deep)

SpecDeep == Init /\ [][NextDeep]_vars

(***************************************************************************)
(* Properties.                                                             *)
(***************************************************************************)
Started(c) == calls[c].pc # "idle"

Answered(c) == calls[c].pc = "done" /\ calls[c].response # None

ResponseOf(c) == calls[c].response[1]

OutcomeOf(c) == calls[c].outcome[1]

Returned(c) == calls[c].pc = "done" /\ OutcomeOf(c).kind = "return"

Raised(c, type) ==
    /\ calls[c].pc = "done"
    /\ OutcomeOf(c).kind = "raise"
    /\ OutcomeOf(c).error.type = type

\* C1: when the remote answers a call with a status outside 200..299, the
\* call fails with the status error carrying that status code and that body,
\* yields no value, and has issued exactly one request.
NonSuccessRaisesOnce ==
    \A c \in Calls :
      (Answered(c) /\ ~(ResponseOf(c).status_code \in 200..299)) =>
        /\ Raised(c, "HTTPStatusError")
        /\ OutcomeOf(c).error.status_code = ResponseOf(c).status_code
        /\ OutcomeOf(c).error.body = ResponseOf(c).body
        /\ Len(calls[c].requests) = 1

\* a get_session call answered 300 with a well-formed session has failed
NonSuccessWitness ==
    \E c \in Calls :
      /\ Answered(c)
      /\ calls[c].tool = "get_session"
      /\ ResponseOf(c).status_code = 300
      /\ ResponseOf(c).body = SampleBody("get_session")
      /\ Raised(c, "HTTPStatusError")

KeyMissing ==
    "JULES_API_KEY" \notin DOMAIN environ \/ environ["JULES_API_KEY"] = ""

\* C2: every request ever issued carries a non-empty X-Goog-Api-Key header,
\* and with the key unset or empty every call fails with the configuration
\* error without having issued a request.
NoRequestWithoutKey ==
    \A c \in Calls :
      /\ \A i \in 1..Len(calls[c].requests) :
           /\ "X-Goog-Api-Key" \in DOMAIN calls[c].requests[i].headers
           /\ calls[c].requests[i].headers["X-Goog-Api-Key"] # ""
      /\ (KeyMissing /\ Started(c)) =>
           /\ Raised(c, "ValueError")
           /\ calls[c].requests = <<>>
           /\ calls[c].response = None

\* with the key set to the empty string, a create_session call has failed
MissingKeyWitness ==
    \E c \in Calls :
      /\ "JULES_API_KEY" \in DOMAIN environ
      /\ environ["JULES_API_KEY"] = ""
      /\ calls[c].tool = "create_session"
      /\ Raised(c, "ValueError")

\* the name in "sessions/..." form
QualifiedName(ref) ==
    IF startswith(ref, "sessions/") THEN ref ELSE "sessions/" \o ref

ReferenceTools ==
    {"get_session", "send_message", "approve_plan", "list_activities",
     "get_activity"}

ReferenceOf(c) ==
    IF calls[c].tool = "get_activity"
    THEN calls[c].args.activity_name ELSE calls[c].args.session_name

PathSuffix(tool) ==
    CASE tool = "send_message" -> ":sendMessage"
      [] tool = "approve_plan" -> ":approvePlan"
      [] tool = "list_activities" -> "/activities"
      [] OTHER -> ""

\* C3: each of get_session, send_message, approve_plan, list_activities and
\* get_activity puts the same qualified "sessions/..." name of its reference
\* argument into the request path.
NormalizationUniform ==
    \A c \in Calls :
      (calls[c].tool \in ReferenceTools /\ calls[c].requests # <<>>) =>
        calls[c].requests[1].url =
          BASE_URL \o "/" \o QualifiedName(ReferenceOf(c))
            \o PathSuffix(calls[c].tool)

NormalizingTools == {"send_message", "approve_plan", "list_activities"}

\* C4: in the operations that normalize (send_message, approve_plan,
\* list_activities) the bare id "abc123" and the qualified "sessions/abc123"
\* both give the path ".../sessions/abc123..."; the normalized name always
\* starts with "sessions/", is the argument itself when that already does,
\* and normalizing it again leaves it unchanged.
SessionPrefixIdempotent ==
    \A c \in Calls :
      (calls[c].tool \in NormalizingTools /\ calls[c].requests # <<>>) =>
        LET ref == calls[c].args.session_name
            name == calls[c].frame.session_name
            url == calls[c].requests[1].url
        IN  /\ url = BASE_URL \o "/" \o name \o PathSuffix(calls[c].tool)
            /\ ref \in {"abc123", "sessions/abc123"} =>
                 name = "sessions/abc123"
            /\ startswith(name, "sessions/")
            /\ ~startswith(ref, "sessions/") => name = "sessions/" \o ref
            /\ startswith(ref, "sessions/") => name = ref
            /\ NormalizeSessionName(name) = name

\* a send_message call given the qualified name is waiting on its request
QualifiedNameWitness ==
    \E c \in Calls :
      /\ calls[c].pc = "awaiting"
      /\ calls[c].tool = "send_message"
      /\ calls[c].args.session_name = "sessions/abc123"
      /\ calls[c].requests[1].url
           = BASE_URL \o "/sessions/abc123:sendMessage"

ParsedBody(c) ==
    /\ Answered(c)
    /\ ResponseOf(c).status_code \in 200..299
    /\ IsJson(ResponseOf(c).body)
    /\ IsObject(ResponseOf(c).body)

HasString(obj, key) == key \in DOMAIN obj /\ IsStr(obj[key])

\* the fields the session schema is said to require
HasPromptAndSource(obj) ==
    /\ HasString(obj, "prompt")
    /\ "sourceContext" \in DOMAIN obj
    /\ IsObject(obj["sourceContext"])
    /\ HasString(obj["sourceContext"], "source")

EnumsRecognized(obj) ==
    /\ "state" \in DOMAIN obj =>
         IsStr(obj["state"]) /\ obj["state"].str \in SessionState
    /\ "automationMode" \in DOMAIN obj =>
         /\ IsStr(obj["automationMode"])
         /\ obj["automationMode"].str \in AutomationMode

\* C5: a Session object parses exactly when it holds a string prompt and
\* sourceContext.source (its enumerated fields being absent or recognized);
\* without name, id and state it parses to a record with no state.
SessionNeedsOnlyPromptAndSource ==
    \A c \in Calls :
      (calls[c].tool = "get_session" /\ ParsedBody(c)
         /\ EnumsRecognized(ResponseOf(c).body)) =>
        /\ HasPromptAndSource(ResponseOf(c).body) <=> Returned(c)
        /\ ~HasPromptAndSource(ResponseOf(c).body) =>
             Raised(c, "ValidationError")
        /\ (Returned(c) /\ "state" \notin DOMAIN ResponseOf(c).body) =>
             "state" \notin DOMAIN OutcomeOf(c).value

\* a Session object that is valid but for the enumerated fields, which are
\* strings of any value
ValidButForEnums(obj) ==
    /\ HasString(obj, "name")
    /\ HasString(obj, "id")
    /\ HasPromptAndSource(obj)
    /\ HasString(obj, "state")
    /\ "automationMode" \in DOMAIN obj => IsStr(obj["automationMode"])

\* C6: a Session object that is valid but for an unrecognized state or
\* automationMode string parses, and the state of every parsed session is a
\* member of SessionState.
UnknownEnumParses ==
    \A c \in Calls :
      (calls[c].tool = "get_session" /\ ParsedBody(c)) =>
        /\ ValidButForEnums(ResponseOf(c).body) => Returned(c)
        /\ Returned(c) => OutcomeOf(c).value["state"] \in SessionState

PayloadKeys ==
    {"agentMessaged", "userMessaged", "planGenerated", "planApproved",
     "progressUpdated", "sessionCompleted", "sessionFailed"}

\* C7: every Activity record that parsing produces has at most one of the
\* seven payload variants populated.
AtMostOnePayload ==
    \A c \in Calls :
      (calls[c].tool = "get_activity" /\ Returned(c)) =>
        Cardinality({k \in PayloadKeys : OutcomeOf(c).value[k] # None}) <= 1

CreateTools == {"create_session", "create_pull_request"}

CreateBodyOf(c) == calls[c].requests[1].json[1]

\* whether the caller passed require_plan_approval (create_pull_request has
\* no such parameter)
ApprovalArg(c) ==
    IF calls[c].tool = "create_session"
    THEN calls[c].args.require_plan_approval ELSE None

CreateBodyBase(c) ==
    /\ calls[c].requests[1].method = "POST"
    /\ calls[c].requests[1].url = BASE_URL \o "/sessions"
    /\ CreateBodyOf(c)["prompt"] =
         IF calls[c].tool = "create_pull_request"
         THEN calls[c].args.prompt \o PR_SUFFIX ELSE calls[c].args.prompt
    /\ CreateBodyOf(c)["sourceContext"]["source"] = calls[c].args.source
    /\ DOMAIN CreateBodyOf(c) \subseteq
         {"prompt", "sourceContext", "title", "requirePlanApproval"}
    /\ DOMAIN CreateBodyOf(c)["sourceContext"] \subseteq {"source", "branch"}

\* C8 as stated: the create-session body holds prompt and
\* sourceContext.source, and holds branch, title and requirePlanApproval
\* exactly when the caller passed the argument.
CreateBodyHoldsWhatWasPassed ==
    \A c \in Calls :
      (calls[c].tool \in CreateTools /\ calls[c].requests # <<>>) =>
        /\ CreateBodyBase(c)
        /\ "branch" \in DOMAIN CreateBodyOf(c)["sourceContext"]
             <=> calls[c].args.branch # None
        /\ "title" \in DOMAIN CreateBodyOf(c)
             <=> calls[c].args.title # None
        /\ "requirePlanApproval" \in DOMAIN CreateBodyOf(c)
             <=> ApprovalArg(c) # None

\* C8 amended: the create-session body holds prompt and
\* sourceContext.source; it holds branch exactly when a non-empty branch was
\* passed, title exactly when a non-empty title was passed, and
\* requirePlanApproval (as true) exactly when the caller passed true; each
\* field present has the value passed.
CreateBodyHoldsWhatIsTruthy ==
    \A c \in Calls :
      (calls[c].tool \in CreateTools /\ calls[c].requests # <<>>) =>
        /\ CreateBodyBase(c)
        /\ "branch" \in DOMAIN CreateBodyOf(c)["sourceContext"]
             <=> (calls[c].args.branch # None /\ calls[c].args.branch[1] # "")
        /\ "branch" \in DOMAIN CreateBodyOf(c)["sourceContext"] =>
             CreateBodyOf(c)["sourceContext"]["branch"]
               = calls[c].args.branch[1]
        /\ "title" \in DOMAIN CreateBodyOf(c)
             <=> (calls[c].args.title # None /\ calls[c].args.title[1] # "")
        /\ "title" \in DOMAIN CreateBodyOf(c) =>
             CreateBodyOf(c)["title"] = calls[c].args.title[1]
        /\ "requirePlanApproval" \in DOMAIN CreateBodyOf(c)
             <=> ApprovalArg(c) = Some(TRUE)
        /\ "requirePlanApproval" \in DOMAIN CreateBodyOf(c) =>
             CreateBodyOf(c)["requirePlanApproval"] = TRUE

\* a create_session call passed a branch, an empty title and an explicit
\* false has sent a body with the branch and neither of the other two
CreateBodyWitness ==
    \E c \in Calls :
      /\ calls[c].tool = "create_session"
      /\ calls[c].requests # <<>>
      /\ calls[c].args.branch = Some("main")
      /\ calls[c].args.title = Some("")
      /\ calls[c].args.require_plan_approval = Some(FALSE)
      /\ DOMAIN CreateBodyOf(c) = {"prompt", "sourceContext"}
      /\ CreateBodyOf(c)["sourceContext"]["branch"] = "main"

\* the items of a wire page that are in neither terminal state, in order
RECURSIVE NonTerminal(_)
NonTerminal(items) ==
    IF items = <<>> THEN <<>>
    ELSE IF items[1]["state"].str \in {"COMPLETED", "FAILED"}
    THEN NonTerminal(Tail(items))
    ELSE <<items[1]>> \o NonTerminal(Tail(items))

PageOf(c) == ResponseOf(c).body["sessions"].list

\* C9: list_sessions returns, in page order, the sessions of the fetched
\* page (with active_only, those whose state is neither COMPLETED nor
\* FAILED), and the page's nextPageToken as it came; it has issued one
\* request, and with active_only no returned session is terminal.
ActiveOnlyFilters ==
    \A c \in Calls :
      (calls[c].tool = "list_sessions" /\ Returned(c)) =>
        LET body == ResponseOf(c).body
            expected == IF calls[c].args.active_only
                        THEN NonTerminal(PageOf(c)) ELSE PageOf(c)
            got == OutcomeOf(c).value.sessions
        IN  /\ Len(got) = Len(expected)
            /\ \A i \in 1..Len(got) :
                 /\ got[i]["name"] = expected[i]["name"].str
                 /\ got[i]["id"] = expected[i]["id"].str
                 /\ got[i]["state"] = expected[i]["state"].str
                 /\ calls[c].args.active_only =>
                      got[i]["state"] \notin {"COMPLETED", "FAILED"}
            /\ OutcomeOf(c).value.nextPageToken =
                 IF "nextPageToken" \in DOMAIN body
                 THEN Some(body["nextPageToken"].str) ELSE None
            /\ Len(calls[c].requests) = 1

\* list_sessions(active_only=True) got a page of a failed and a queued
\* session with a token, and returned the queued one
ActiveOnlyWitness ==
    \E c \in Calls :
      /\ calls[c].tool = "list_sessions"
      /\ Returned(c)
      /\ calls[c].args.active_only
      /\ "nextPageToken" \in DOMAIN ResponseOf(c).body
      /\ Len(PageOf(c)) = 2
      /\ PageOf(c)[1]["state"].str = "FAILED"
      /\ PageOf(c)[2]["state"].str = "QUEUED"
      /\ Len(OutcomeOf(c).value.sessions) = 1
      /\ OutcomeOf(c).value.sessions[1]["id"] = "s1"

\* what the call would do run alone: its request, and its outcome for the
\* response it got
Alone(c) == ToolCall(calls[c].tool, calls[c].args)

\* C10: whatever other calls are in flight, the request of a call and its
\* result or error are those the call produces alone from its own
\* arguments, the credential and its own response.
CallsIndependent ==
    \A c \in Calls :
      Started(c) =>
        /\ Alone(c).kind = "await" =>
             /\ calls[c].requests = <<Alone(c).request>>
             /\ Answered(c) =>
                  OutcomeOf(c) =
                    ToolResume(calls[c].tool, calls[c].args,
                               JulesClient_resume(Alone(c).frame,
                                                  ResponseOf(c)))
             /\ calls[c].pc = "done" => Answered(c)
        /\ Alone(c).kind # "await" =>
             /\ calls[c].pc = "done"
             /\ calls[c].requests = <<>>
             /\ calls[c].outcome = Some(Alone(c))

\* two send_message calls for different sessions were in flight together;
\* one has returned while the other still waits
ConcurrentWitness ==
    \E c, d \in Calls :
      /\ c # d
      /\ calls[c].tool = "send_message"
      /\ calls[d].tool = "send_message"
      /\ calls[c].args.session_name # calls[d].args.session_name
      /\ Returned(c)
      /\ OutcomeOf(c).value.session = QualifiedName(calls[c].args.session_name)
      /\ calls[d].pc = "awaiting"

====
